---- MODULE Spec2Model ----
(***************************************************************************)
(* Goshala storefront backend (src/server.js): the review verification     *)
(* and rating aggregation subsystem, the admin product endpoints and the   *)
(* startup migration/seed pipeline, as a state machine over the three      *)
(* collections of the store (Products, Comments, Orders).                  *)
(*                                                                         *)
(* Every await of a handler is one step: the store operation awaited is    *)
(* executed, then the synchronous code up to the next await runs.          *)
(* Strings are sequences of one-character strings.                         *)
(***************************************************************************)
EXTENDS Integers, Sequences, FiniteSets, TLC

(***************************************************************************)
(* Bounds of the model.                                                    *)
(***************************************************************************)
MaxProducts == 3        \* Product documents ever created (ObjectIds 1..MaxProducts)
MaxComments == 3        \* Comment documents ever created
MaxOrders == 1          \* Order documents ever created
MaxRuns == 2            \* processes started against the same store

(***************************************************************************)
(* Program constants.                                                      *)
(***************************************************************************)
MinRating == 1          \* CommentSchema.rating min
MaxRating == 5          \* CommentSchema.rating max
NoRating == 0           \* a Comment document without a rating field
NoId == 0               \* no document: findOne / findById returned null
Absent == -1            \* a field that req.body does not carry

(***************************************************************************)
(* String primitives: String.prototype.toLowerCase, trim and includes.     *)
(***************************************************************************)
Lower(c) ==
    CASE c = "A" -> "a"
      [] c = "B" -> "b"
      [] OTHER -> c

ToLowerCase(s) == [i \in 1..Len(s) |-> Lower(s[i])]

RECURSIVE TrimStart(_)
TrimStart(s) ==
    IF s # <<>> /\ Head(s) = " " THEN TrimStart(Tail(s)) ELSE s

RECURSIVE TrimEnd(_)
TrimEnd(s) ==
    IF s # <<>> /\ s[Len(s)] = " " THEN TrimEnd(SubSeq(s, 1, Len(s) - 1)) ELSE s

Trim(s) == TrimEnd(TrimStart(s))

Includes(hay, needle) ==
    \E i \in 1..(Len(hay) - Len(needle) + 1) :
        SubSeq(hay, i, i + Len(needle) - 1) = needle

(***************************************************************************)
(* Purchase Matcher: the verification logic of review submission and of    *)
(* the migration of embedded reviews.                                      *)
(***************************************************************************)
CustomerName(order) ==
    Trim(ToLowerCase(order.firstname \o <<" ">> \o order.lastname))

IsVerifiedSomeReversed(ordersWithProduct, user) ==
    IF ordersWithProduct # {}
    THEN LET reviewerName == Trim(ToLowerCase(user))
         IN  \E order \in ordersWithProduct :
                 Includes(reviewerName, CustomerName(order))
    ELSE FALSE

IsVerified(ordersWithProduct, user) ==
    IF ordersWithProduct # {}
    THEN LET reviewerName == Trim(ToLowerCase(user))
         IN  \E order \in ordersWithProduct :
                 Includes(CustomerName(order), reviewerName)
    ELSE FALSE

(***************************************************************************)
(* Rating aggregation: the $match/$group pipeline and Math.round.          *)
(***************************************************************************)
RECURSIVE SumRatings(_)
SumRatings(cs) ==
    IF cs = <<>> THEN 0
    ELSE (IF Head(cs).rating = NoRating THEN 0 ELSE Head(cs).rating)
         + SumRatings(Tail(cs))

RECURSIVE CountRated(_)
CountRated(cs) ==
    IF cs = <<>> THEN 0
    ELSE (IF Head(cs).rating = NoRating THEN 0 ELSE 1) + CountRated(Tail(cs))

\* $avg is the quotient sum/rated (null when rated = 0); Math.round(x) is the
\* integer k with k - 1/2 <= x < k + 1/2, and Math.round(null) is 0.
MathRoundHalfDown(sum, rated) ==
    IF rated = 0 THEN 0
    ELSE CHOOSE k \in 0..MaxRating :
             2 * rated * k - rated < 2 * sum /\ 2 * sum <= 2 * rated * k + rated

MathRound(sum, rated) ==
    IF rated = 0 THEN 0
    ELSE CHOOSE k \in 0..MaxRating :
             2 * rated * k - rated <= 2 * sum /\ 2 * sum < 2 * rated * k + rated

(***************************************************************************)
(* State.                                                                  *)
(*   phase            position of startServer / migrateAndSeed             *)
(*   productsFromJson the legacy list read from products.json              *)
(*   mig              locals of migrateAndSeed's loop                      *)
(*   products         the Product collection (a set of documents)          *)
(*   ids              ObjectIds generated for Products so far              *)
(*   comments         the Comment collection, in insertion order           *)
(*   orders           the Order collection                                 *)
(*   review           POST /api/products/:id/reviews handlers in flight    *)
(*   create           POST /api/products handlers in flight                *)
(*   plain            POST /product/:id/comment handlers in flight         *)
(*   created          legacyIds returned by the 201 responses of           *)
(*                    POST /api/products, in order                         *)
(*   log              what each process started against the store has      *)
(*                    written with console.error, one set per process:     *)
(*                    "read" (products.json unreadable), "migrate" (error  *)
(*                    during migration and seeding), "fatal" (connection)  *)
(* The browser module (src/unnamed/part_000):                              *)
(*   cachedProducts   the product list of the last response stored         *)
(*   lastFetchTime    the start time of the call that stored it            *)
(*   clock            Date.now() of the browser                            *)
(*   load             loadProducts calls in flight                         *)
(***************************************************************************)
VARIABLES phase, productsFromJson, mig, products, ids, comments, orders,
          review, create, plain, created, log,
          cachedProducts, lastFetchTime, clock, load

store == <<products, ids, comments, orders>>
startup == <<phase, productsFromJson, mig, log>>
client == <<cachedProducts, lastFetchTime, clock, load>>
vars == <<phase, productsFromJson, mig, products, ids, comments, orders,
          review, create, plain, created, log,
          cachedProducts, lastFetchTime, clock, load>>

server == <<phase, productsFromJson, mig, log, store, review, create, plain, created>>

(***************************************************************************)
(* The browser's product cache: loadProducts and applyCartState.           *)
(* A product is [id]; an item of the stored cart is [id, quantity].  The   *)
(* stored cart is what JSON.parse of the localStorage entry yields when    *)
(* the entry is absent (the empty list) or holds a list of items.          *)
(***************************************************************************)
CacheMs == 5000

\* values of Date.now(), in ms: the page load and later instants, 1, 2499,
\* 2500, 2501, 4999, 5000 and 7500 ms apart
Times == {20000, 22500, 24999, 25000, 27500}

LoadSlots == {1, 2}

ApiResponses == { <<>>, << [id |-> 1] >>, << [id |-> 2], [id |-> 1] >> }

StoredCarts ==
    { <<>>,
      << [id |-> 1, quantity |-> 2] >>,
      << [id |-> 2, quantity |-> 1], [id |-> 2, quantity |-> 3] >> }

\* new Map(storedCart.map(item => [item.id, item])): the positions of the
\* items with that id; Map.get yields the last of them, undefined when none
CartMapAt(storedCart, id) == {i \in 1..Len(storedCart) : storedCart[i].id = id}

CartMapGet(storedCart, id) ==
    LET at == CartMapAt(storedCart, id)
    IN  storedCart[CHOOSE i \in at : \A j \in at : j <= i]

applyCartState(list, storedCart) ==
    [i \in 1..Len(list) |->
        IF CartMapAt(storedCart, list[i].id) # {}
        THEN [id |-> list[i].id, inCart |-> TRUE,
              quantity |-> CartMapGet(storedCart, list[i].id).quantity]
        ELSE [id |-> list[i].id, inCart |-> FALSE, quantity |-> 0]]

LoadIdle ==
    [pc |-> "idle", forceReload |-> FALSE, now |-> 0, outcome |-> "none",
     result |-> <<>>]

ClientInit ==
    /\ cachedProducts = <<>>
    /\ lastFetchTime = 0
    /\ clock = 20000
    /\ load = [c \in LoadSlots |-> LoadIdle]

\* Date.now() advances between two steps of the page
Tick ==
    /\ \E t \in Times : t > clock /\ clock' = t
    /\ UNCHANGED <<cachedProducts, lastFetchTime, load, server>>

CacheFreshInclusive(now) == now - lastFetchTime <= CacheMs

CacheFresh(now) == now - lastFetchTime < CacheMs

UseCache(forceReload, now) ==
    ~forceReload /\ CacheFresh(now) /\ Len(cachedProducts) > 0

Returned(c, outcome, result) ==
    [load EXCEPT ![c] = [@ EXCEPT !.pc = "returned", !.outcome = outcome,
                                  !.result = result]]

\* loadProducts(forceReload) up to its first await, or to the return of the
\* cached list
LoadProducts(c, forceReload, storedCart) ==
    /\ load[c].pc \in {"idle", "returned"}
    /\ LET call == [pc |-> "fetch", forceReload |-> forceReload, now |-> clock,
                    outcome |-> "none", result |-> <<>>]
       IN  IF UseCache(forceReload, clock)
           THEN load' = [load EXCEPT ![c] =
                            [call EXCEPT !.pc = "returned", !.outcome = "cache",
                                         !.result = applyCartState(cachedProducts, storedCart)]]
           ELSE load' = [load EXCEPT ![c] = call]
    /\ UNCHANGED <<cachedProducts, lastFetchTime, clock, server>>

\* await fetch('/api/products') resolves with an ok response
LoadProducts_Fetch(c) ==
    /\ load[c].pc = "fetch"
    /\ load' = [load EXCEPT ![c].pc = "json"]
    /\ UNCHANGED <<cachedProducts, lastFetchTime, clock, server>>

\* fetch rejects or the response is not ok: the catch returns []
LoadProducts_FetchFails(c) ==
    /\ load[c].pc = "fetch"
    /\ load' = Returned(c, "failed", <<>>)
    /\ UNCHANGED <<cachedProducts, lastFetchTime, clock, server>>

\* await response.json() resolves: the cache and its time are written
LoadProducts_Json(c, productsFromAPI, storedCart) ==
    /\ load[c].pc = "json"
    /\ cachedProducts' = productsFromAPI
    /\ lastFetchTime' = load[c].now
    /\ load' = Returned(c, "fetched", applyCartState(productsFromAPI, storedCart))
    /\ UNCHANGED <<clock, server>>

\* response.json() rejects: the catch returns []
LoadProducts_JsonFails(c) ==
    /\ load[c].pc = "json"
    /\ load' = Returned(c, "failed", <<>>)
    /\ UNCHANGED <<cachedProducts, lastFetchTime, clock, server>>

ReviewSlots == {1, 2}
CreateSlots == {1, 2}
PlainSlots == {1}

NoDoc == [_id |-> NoId, legacyId |-> 0, rating |-> 0, reviewsCount |-> 0]

ReviewIdle(status) ==
    [pc |-> status, id |-> 0, user |-> <<>>, rating |-> 0, comment |-> <<>>,
     product |-> NoDoc, isVerified |-> FALSE, newRating |-> 0,
     newReviewsCount |-> 0]

CreateIdle(status) ==
    [pc |-> status,
     body |-> [legacyId |-> Absent, rating |-> Absent, reviewsCount |-> Absent],
     newLegacyId |-> 0]

PlainIdle(status) ==
    [pc |-> status, productId |-> NoId, username |-> <<>>, comment |-> <<>>]

MigIdle ==
    [i |-> 0, migratedCount |-> 0, newProduct |-> NoId, commentsToCreate |-> <<>>]

(***************************************************************************)
(* Store queries.                                                          *)
(***************************************************************************)
FindOneByLegacyId(legacyId) ==
    IF \E p \in products : p.legacyId = legacyId
    THEN CHOOSE p \in products : p.legacyId = legacyId
    ELSE NoDoc

FindById(id) ==
    IF \E p \in products : p._id = id
    THEN CHOOSE p \in products : p._id = id
    ELSE NoDoc

\* Product.findOne().sort({ legacyId: -1 }) and .sort({ legacyId: 1 })
FindLast ==
    IF products = {} THEN NoDoc
    ELSE CHOOSE p \in products : \A q \in products : q.legacyId <= p.legacyId

FindFirstInserted ==
    IF products = {} THEN NoDoc
    ELSE CHOOSE p \in products : \A q \in products : p._id <= q._id

FindFirst ==
    IF products = {} THEN NoDoc
    ELSE CHOOSE p \in products : \A q \in products : p.legacyId <= q.legacyId

\* Order.find({ 'items.id': legacyId })
OrdersWithProduct(legacyId) == {o \in orders : legacyId \in o.items}

\* the unique index on Product.legacyId
UniqueIndexOff(legacyId, id) == TRUE

UniqueIndexAllows(legacyId, id) ==
    \A p \in products : p.legacyId = legacyId => p._id = id

\* CommentSchema: username and comment are trimmed and required, rating is
\* optional and within [1, 5]
CommentValid(username, comment, rating) ==
    /\ Trim(username) # <<>>
    /\ Trim(comment) # <<>>
    /\ rating = NoRating \/ (MinRating <= rating /\ rating <= MaxRating)

\* a stored Comment; its username, text and createdAt are not kept
NewComment(productId, rating, verifiedPurchase) ==
    [productId |-> productId, rating |-> rating,
     verifiedPurchase |-> verifiedPurchase]

CommentsOf(productId) == SelectSeq(comments, LAMBDA c : c.productId = productId)

\* Comment.aggregate([{ $match }, { $group: { avgRating: $avg, count: $sum 1 } }])
\* avgRating is kept as the pair (sum, rated)
Aggregate(productId) ==
    LET matched == CommentsOf(productId)
    IN  [length |-> IF matched = <<>> THEN 0 ELSE 1,
         sum |-> SumRatings(matched),
         rated |-> CountRated(matched),
         count |-> Len(matched)]

Init ==
    /\ phase = "readFile"
    /\ productsFromJson = <<>>
    /\ mig = MigIdle
    /\ products = {}
    /\ ids = 0
    /\ comments = <<>>
    /\ orders = {}
    /\ review = [r \in ReviewSlots |-> ReviewIdle("idle")]
    /\ create = [c \in CreateSlots |-> CreateIdle("idle")]
    /\ plain = [k \in PlainSlots |-> PlainIdle("idle")]
    /\ created = <<>>
    /\ log = << {} >>
    /\ ClientInit

\* console.error of the running process
Logged(event) == [log EXCEPT ![Len(log)] = @ \cup {event}]

(***************************************************************************)
(* startServer: read products.json, connect, migrateAndSeed, listen.       *)
(***************************************************************************)
StartServer_ReadFile(files) ==
    /\ phase = "readFile"
    /\ \E data \in files : productsFromJson' = data
    /\ phase' = "connect"
    /\ UNCHANGED <<client, mig, store, review, create, plain, created, log>>

StartServer_ReadFileFailsFatal ==
    /\ phase = "readFile"
    /\ phase' = "exited"
    /\ log' = Logged("read")
    /\ UNCHANGED <<client, productsFromJson, mig, store, review, create, plain, created>>

\* fs.readFile or JSON.parse throws: logged, productsFromJson stays []
StartServer_ReadFileFails ==
    /\ phase = "readFile"
    /\ phase' = "connect"
    /\ log' = Logged("read")
    /\ UNCHANGED <<client, productsFromJson, mig, store, review, create, plain, created>>

StartServer_ConnectAndListen ==
    /\ phase = "connect"
    /\ phase' = "listening"
    /\ UNCHANGED <<client, productsFromJson, mig, store, review, create, plain, created, log>>

StartServer_Connect ==
    /\ phase = "connect"
    /\ phase' = "migrate"
    /\ UNCHANGED <<client, productsFromJson, mig, store, review, create, plain, created, log>>

\* mongoose.connect rejects: process.exit(1)
StartServer_ConnectFails ==
    /\ phase = "connect"
    /\ phase' = "exited"
    /\ log' = Logged("fatal")
    /\ UNCHANGED <<client, productsFromJson, mig, store, review, create, plain, created>>

StartServer_Listen ==
    /\ phase = "listen"
    /\ phase' = "listening"
    /\ UNCHANGED <<client, productsFromJson, mig, store, review, create, plain, created, log>>

(***************************************************************************)
(* migrateAndSeed.                                                         *)
(***************************************************************************)
MigrateCatchExits ==
    /\ phase' = "exited"
    /\ mig' = MigIdle
    /\ log' = Logged("migrate")

\* the catch of migrateAndSeed: the error is logged and the function returns
MigrateCatch ==
    /\ phase' = "listen"
    /\ mig' = MigIdle
    /\ log' = Logged("migrate")

\* the for-of loop moves to the next legacy record, or ends
MigrateNext(migratedCount) ==
    IF mig.i + 1 > Len(productsFromJson)
    THEN /\ phase' = "seedCount"
         /\ mig' = [MigIdle EXCEPT !.migratedCount = migratedCount]
    ELSE /\ phase' = "migrateFind"
         /\ mig' = [MigIdle EXCEPT !.i = mig.i + 1,
                                   !.migratedCount = migratedCount]

Migrate_Count ==
    /\ phase = "migrate"
    /\ IF Cardinality(products) < Len(productsFromJson)
       THEN /\ phase' = "migrateFind"
            /\ mig' = [MigIdle EXCEPT !.i = 1]
       ELSE /\ phase' = "seedCount"
            /\ mig' = MigIdle
    /\ UNCHANGED <<client, productsFromJson, store, review, create, plain, created, log>>

Migrate_FindOneNoSkip ==
    /\ phase = "migrateFind"
    /\ phase' = "migrateSave"
    /\ mig' = mig
    /\ UNCHANGED <<client, productsFromJson, store, review, create, plain, created, log>>

Migrate_FindOne ==
    /\ phase = "migrateFind"
    /\ IF FindOneByLegacyId(productsFromJson[mig.i].id) # NoDoc
       THEN MigrateNext(mig.migratedCount)
       ELSE /\ phase' = "migrateSave"
            /\ mig' = mig
    /\ UNCHANGED <<client, productsFromJson, store, review, create, plain, created, log>>

Migrate_Save ==
    /\ phase = "migrateSave"
    /\ LET p == productsFromJson[mig.i]
           newProduct == [_id |-> ids + 1, legacyId |-> p.id,
                          rating |-> p.rating, reviewsCount |-> p.reviewsCount]
       IN  IF UniqueIndexAllows(p.id, ids + 1)
           THEN /\ products' = products \cup {newProduct}
                /\ ids' = ids + 1
                /\ IF Len(p.reviews) > 0
                   THEN /\ phase' = "migrateOrders"
                        /\ mig' = [mig EXCEPT !.newProduct = ids + 1,
                                              !.migratedCount = @ + 1]
                   ELSE MigrateNext(mig.migratedCount + 1)
                /\ UNCHANGED log
           ELSE /\ MigrateCatch
                /\ UNCHANGED <<products, ids>>
    /\ UNCHANGED <<client, productsFromJson, comments, orders, review, create, plain, created>>

Migrate_FindOrders ==
    /\ phase = "migrateOrders"
    /\ LET p == productsFromJson[mig.i]
           ordersWithProduct == OrdersWithProduct(p.id)
       IN  mig' = [mig EXCEPT !.commentsToCreate =
                      [k \in 1..Len(p.reviews) |->
                          [productId |-> mig.newProduct,
                           username |-> p.reviews[k].user,
                           rating |-> p.reviews[k].rating,
                           comment |-> p.reviews[k].comment,
                           verifiedPurchase |->
                               IsVerified(ordersWithProduct, p.reviews[k].user)]]]
    /\ phase' = "migrateInsert"
    /\ UNCHANGED <<client, productsFromJson, store, review, create, plain, created, log>>

Migrate_InsertMany ==
    /\ phase = "migrateInsert"
    /\ LET docs == mig.commentsToCreate
       IN  IF \A k \in 1..Len(docs) :
                  CommentValid(docs[k].username, docs[k].comment, docs[k].rating)
           THEN /\ comments' = comments \o
                       [k \in 1..Len(docs) |->
                           NewComment(docs[k].productId, docs[k].rating,
                                      docs[k].verifiedPurchase)]
                /\ MigrateNext(mig.migratedCount)
                /\ UNCHANGED log
           ELSE /\ MigrateCatch
                /\ UNCHANGED comments
    /\ UNCHANGED <<client, productsFromJson, products, ids, orders, review, create, plain, created>>

Seed_CountIgnored ==
    /\ phase = "seedCount"
    /\ phase' = "seedFind"
    /\ UNCHANGED <<client, productsFromJson, mig, store, review, create, plain, created, log>>

Seed_Count ==
    /\ phase = "seedCount"
    /\ IF Len(comments) = 0
       THEN /\ phase' = "seedFind"
            /\ mig' = mig
       ELSE /\ phase' = "listen"
            /\ mig' = MigIdle
    /\ UNCHANGED <<client, productsFromJson, store, review, create, plain, created, log>>

Seed_FindOne ==
    /\ phase = "seedFind"
    /\ IF FindFirst # NoDoc
       THEN /\ phase' = "seedCreate"
            /\ mig' = [mig EXCEPT !.newProduct = FindFirst._id]
       ELSE /\ phase' = "listen"
            /\ mig' = MigIdle
    /\ UNCHANGED <<client, productsFromJson, store, review, create, plain, created, log>>

Seed_Create ==
    /\ phase = "seedCreate"
    /\ comments' = comments \o
           << NewComment(mig.newProduct, 5, FALSE),
              NewComment(mig.newProduct, 4, FALSE) >>
    /\ phase' = "listen"
    /\ mig' = MigIdle
    /\ UNCHANGED <<client, productsFromJson, products, ids, orders, review, create, plain, created, log>>

\* any awaited store operation of migrateAndSeed rejects (the store became
\* unavailable): nothing is written, the catch logs and the function returns
MigratePhases ==
    {"migrate", "migrateFind", "migrateSave", "migrateOrders", "migrateInsert",
     "seedCount", "seedFind", "seedCreate"}

Migrate_StoreError ==
    /\ phase \in MigratePhases
    /\ MigrateCatch
    /\ UNCHANGED <<client, productsFromJson, store, review, create, plain, created>>

\* the process is stopped and node runs server.js again against the same
\* store: module state is initialised anew, startServer() is called
Restart ==
    /\ phase \in {"listening", "exited"}
    /\ Len(log) < MaxRuns
    /\ phase' = "readFile"
    /\ productsFromJson' = <<>>
    /\ mig' = MigIdle
    /\ review' = [r \in ReviewSlots |-> ReviewIdle("idle")]
    /\ create' = [c \in CreateSlots |-> CreateIdle("idle")]
    /\ plain' = [k \in PlainSlots |-> PlainIdle("idle")]
    /\ created' = <<>>
    /\ log' = Append(log, {})
    /\ UNCHANGED <<client, store>>

(***************************************************************************)
(* POST /api/products/:id/reviews                                          *)
(***************************************************************************)
ReviewDone == {"idle", "r201", "r400", "r404", "r500"}
PlainDone == {"idle", "p201", "p400", "p404", "p500"}
CreateDone == {"idle", "c201", "c400"}

\* handlers in flight that may still insert a Comment / a Product
CommentsPending ==
    Cardinality({r \in ReviewSlots : review[r].pc \in {"received", "findOrders", "saveComment"}})
    + Cardinality({k \in PlainSlots : plain[k].pc = "save"})

ProductsPending == Cardinality({c \in CreateSlots : create[c].pc = "save"})

\* !user || !rating || !comment || rating < 1 || rating > 5
ReviewFieldsMissingNoUpper(user, rating, comment) ==
    user = <<>> \/ rating = 0 \/ comment = <<>> \/ rating < MinRating

ReviewFieldsMissing(user, rating, comment) ==
    user = <<>> \/ rating = 0 \/ comment = <<>> \/ rating < MinRating
        \/ rating > MaxRating

\* if (!product) return res.status(404)
ProductMissingIgnored(product) == FALSE

ProductMissing(product) == product = NoDoc

PostReview(r, legacyIds, users, ratings, texts) ==
    /\ phase = "listening"
    /\ review[r].pc \in ReviewDone
    /\ Len(comments) + CommentsPending < MaxComments
    /\ \E id \in legacyIds, user \in users, rating \in ratings, comment \in texts :
           review' = [review EXCEPT ![r] =
                         [ReviewIdle("received") EXCEPT !.id = id, !.user = user,
                              !.rating = rating, !.comment = comment]]
    /\ UNCHANGED <<client, startup, store, create, plain, created>>

\* the response is sent: the request stays, the handler's locals are gone
ReviewEnd(req, status) ==
    [ReviewIdle(status) EXCEPT !.id = req.id, !.user = req.user,
         !.rating = req.rating, !.comment = req.comment]

PostReview_FindProduct(r) ==
    /\ review[r].pc = "received"
    /\ LET req == review[r]
           product == FindOneByLegacyId(req.id)
       IN  review' = [review EXCEPT ![r] =
               IF ReviewFieldsMissing(req.user, req.rating, req.comment)
               THEN ReviewEnd(req, "r400")
               ELSE IF ProductMissing(product)
               THEN ReviewEnd(req, "r404")
               ELSE [req EXCEPT !.pc = "findOrders", !.product = product,
                         !.newRating = product.rating,
                         !.newReviewsCount = product.reviewsCount]]
    /\ UNCHANGED <<client, startup, store, create, plain, created>>

PostReview_FindOrders(r) ==
    /\ review[r].pc = "findOrders"
    /\ LET req == review[r]
       IN  review' = [review EXCEPT ![r] =
               [req EXCEPT !.pc = "saveComment",
                    !.isVerified = IsVerified(OrdersWithProduct(req.id), req.user)]]
    /\ UNCHANGED <<client, startup, store, create, plain, created>>

\* new Comment({ productId: product._id, ... }) throws on a null product;
\* newComment.save() validates against CommentSchema
PostReview_SaveComment(r) ==
    /\ review[r].pc = "saveComment"
    /\ LET req == review[r]
       IN  IF req.product # NoDoc /\ CommentValid(req.user, req.comment, req.rating)
           THEN /\ comments' = Append(comments,
                        NewComment(req.product._id, req.rating, req.isVerified))
                /\ review' = [review EXCEPT ![r] = [req EXCEPT !.pc = "aggregate"]]
           ELSE /\ review' = [review EXCEPT ![r] = ReviewEnd(req, "r500")]
                /\ UNCHANGED comments
    /\ UNCHANGED <<client, startup, products, ids, orders, create, plain, created>>

\* Comment.aggregate, then product.rating / product.reviewsCount are assigned
\* on the loaded document (newRating, newReviewsCount)
PostReview_Aggregate(r) ==
    /\ review[r].pc = "aggregate"
    /\ LET req == review[r]
           stats == Aggregate(req.product._id)
       IN  review' = [review EXCEPT ![r] =
               IF stats.length > 0
               THEN [req EXCEPT !.pc = "saveProduct",
                                !.newRating = MathRound(stats.sum, stats.rated),
                                !.newReviewsCount = stats.count]
               ELSE ReviewEnd(req, "r201")]
    /\ UNCHANGED <<client, startup, store, create, plain, created>>

PostReview_SaveProductIfNewer(r) ==
    /\ review[r].pc = "saveProduct"
    /\ LET req == review[r]
           stored == FindById(req.product._id)
       IN  IF stored = NoDoc \/ stored.reviewsCount >= req.newReviewsCount
           THEN /\ review' = [review EXCEPT ![r] = ReviewEnd(req, "r201")]
                /\ UNCHANGED products
           ELSE /\ products' = (products \ {stored}) \cup
                       {[stored EXCEPT !.rating = req.newRating,
                                       !.reviewsCount = req.newReviewsCount]}
                /\ review' = [review EXCEPT ![r] = ReviewEnd(req, "r201")]
    /\ UNCHANGED <<client, startup, ids, comments, orders, create, plain, created>>

\* product.save() sends the paths whose value changed since the document was
\* loaded; it fails when the document is gone
PostReview_SaveProduct(r) ==
    /\ review[r].pc = "saveProduct"
    /\ LET req == review[r]
           stored == FindById(req.product._id)
           modified == req.newRating # req.product.rating
                       \/ req.newReviewsCount # req.product.reviewsCount
       IN  IF ~modified
           THEN /\ review' = [review EXCEPT ![r] = ReviewEnd(req, "r201")]
                /\ UNCHANGED products
           ELSE IF stored = NoDoc
           THEN /\ review' = [review EXCEPT ![r] = ReviewEnd(req, "r500")]
                /\ UNCHANGED products
           ELSE /\ products' = (products \ {stored}) \cup
                       {[stored EXCEPT
                           !.rating = IF req.newRating # req.product.rating
                                      THEN req.newRating ELSE @,
                           !.reviewsCount = IF req.newReviewsCount # req.product.reviewsCount
                                            THEN req.newReviewsCount ELSE @]}
                /\ review' = [review EXCEPT ![r] = ReviewEnd(req, "r201")]
    /\ UNCHANGED <<client, startup, ids, comments, orders, create, plain, created>>

\* an awaited store operation of the handler rejects (the store became
\* unavailable): nothing is written by it, the catch answers 500
PostReview_StoreError(r) ==
    /\ \/ /\ review[r].pc = "received"
          /\ ~ReviewFieldsMissing(review[r].user, review[r].rating, review[r].comment)
       \/ review[r].pc \in {"findOrders", "saveComment", "aggregate", "saveProduct"}
    /\ review' = [review EXCEPT ![r] = ReviewEnd(review[r], "r500")]
    /\ UNCHANGED <<client, startup, store, create, plain, created>>

(***************************************************************************)
(* POST /product/:id/comment                                               *)
(***************************************************************************)
PostComment(k, productIds, users, texts) ==
    /\ phase = "listening"
    /\ plain[k].pc \in PlainDone
    /\ Len(comments) + CommentsPending < MaxComments
    /\ \E productId \in productIds, username \in users, comment \in texts :
           plain' = [plain EXCEPT ![k] =
               IF username = <<>> \/ comment = <<>>
               THEN PlainIdle("p400")
               ELSE IF FindById(productId) = NoDoc
               THEN PlainIdle("p404")
               ELSE [pc |-> "save", productId |-> productId,
                     username |-> username, comment |-> comment]]
    /\ UNCHANGED <<client, startup, store, review, create, created>>

PostComment_Save(k) ==
    /\ plain[k].pc = "save"
    /\ LET req == plain[k]
       IN  IF CommentValid(req.username, req.comment, NoRating)
           THEN /\ comments' = Append(comments,
                        NewComment(req.productId, NoRating, FALSE))
                /\ plain' = [plain EXCEPT ![k] = PlainIdle("p201")]
           ELSE /\ plain' = [plain EXCEPT ![k] = PlainIdle("p500")]
                /\ UNCHANGED comments
    /\ UNCHANGED <<client, startup, products, ids, orders, review, create, created>>

(***************************************************************************)
(* Admin endpoints: POST, PUT and DELETE /api/products                     *)
(***************************************************************************)
BodyField(value, default) == IF value = Absent THEN default ELSE value

\* lastProduct ? lastProduct.legacyId + 1 : 1
NextLegacyId(lastProduct) ==
    IF lastProduct # NoDoc THEN lastProduct.legacyId + 1 ELSE 1

PostProduct(c, bodies) ==
    /\ phase = "listening"
    /\ create[c].pc \in CreateDone
    /\ ids + ProductsPending < MaxProducts
    /\ \E body \in bodies :
           create' = [create EXCEPT ![c] =
               [pc |-> "save", body |-> body, newLegacyId |-> NextLegacyId(FindLast)]]
    /\ UNCHANGED <<client, startup, store, review, plain, created>>

PostProduct_Save(c) ==
    /\ create[c].pc = "save"
    /\ LET req == create[c]
           newProduct == [_id |-> ids + 1, legacyId |-> req.newLegacyId,
                          rating |-> BodyField(req.body.rating, 0),
                          reviewsCount |-> BodyField(req.body.reviewsCount, 0)]
       IN  IF UniqueIndexAllows(req.newLegacyId, ids + 1)
           THEN /\ products' = products \cup {newProduct}
                /\ ids' = ids + 1
                /\ created' = Append(created, req.newLegacyId)
                /\ create' = [create EXCEPT ![c] =
                       [CreateIdle("c201") EXCEPT !.newLegacyId = req.newLegacyId]]
           ELSE /\ create' = [create EXCEPT ![c] =
                       [CreateIdle("c400") EXCEPT !.newLegacyId = req.newLegacyId]]
                /\ UNCHANGED <<products, ids, created>>
    /\ UNCHANGED <<client, startup, comments, orders, review, plain>>

\* Product.findByIdAndUpdate(req.params.id, req.body): one atomic update
PutProduct(bodies) ==
    /\ phase = "listening"
    /\ \E p \in products, body \in bodies :
           LET updated == [p EXCEPT
                   !.legacyId = BodyField(body.legacyId, @),
                   !.rating = BodyField(body.rating, @),
                   !.reviewsCount = BodyField(body.reviewsCount, @)]
           IN  /\ updated # p
               /\ UniqueIndexAllows(updated.legacyId, p._id)
               /\ products' = (products \ {p}) \cup {updated}
    /\ UNCHANGED <<client, startup, ids, comments, orders, review, create, plain, created>>

\* Product.findByIdAndDelete(req.params.id)
DeleteProduct ==
    /\ phase = "listening"
    /\ \E p \in products : products' = products \ {p}
    /\ UNCHANGED <<client, startup, ids, comments, orders, review, create, plain, created>>

(***************************************************************************)
(* POST /api/orders                                                        *)
(***************************************************************************)
\* OrderSchema: user.firstname and user.lastname are trimmed and required
OrderDoc(items, firstname, lastname) ==
    [items |-> items, firstname |-> Trim(firstname), lastname |-> Trim(lastname)]

PostOrder(itemSets, firstnames, lastnames) ==
    /\ phase = "listening"
    /\ Cardinality(orders) < MaxOrders
    /\ \E items \in itemSets, firstname \in firstnames, lastname \in lastnames :
           /\ items # {}
           /\ Trim(firstname) # <<>>
           /\ Trim(lastname) # <<>>
           /\ orders' = orders \cup {OrderDoc(items, firstname, lastname)}
    /\ UNCHANGED <<client, startup, products, ids, comments, review, create, plain, created>>

(***************************************************************************)
(* Inputs.                                                                 *)
(***************************************************************************)
LegacyReview(user, rating) ==
    [user |-> user, rating |-> rating, comment |-> <<"o", "k">>]

LegacyRecord(id, rating, reviewsCount, reviews) ==
    [id |-> id, rating |-> rating, reviewsCount |-> reviewsCount, reviews |-> reviews]

\* possible contents of products.json
LegacyFiles ==
    { <<>>,
      << LegacyRecord(1, 0, 0, <<>>) >>,
      << LegacyRecord(1, 5, 1, << LegacyReview(<<"A", " ">>, 5) >>),
         LegacyRecord(2, 0, 0, <<>>) >> }

ProductIdInputs == 1..MaxProducts
\* req.body of POST /api/products: a legacyId in it is overwritten
CreateBodies == { [legacyId |-> 9, rating |-> 3, reviewsCount |-> Absent] }
\* req.body of PUT /api/products/:id
PutBodies == { [legacyId |-> 3, rating |-> Absent, reviewsCount |-> Absent] }
AdminPutBodies == { [legacyId |-> 1, rating |-> Absent, reviewsCount |-> Absent],
                    [legacyId |-> 2, rating |-> 2, reviewsCount |-> Absent] }

Start ==
    \/ StartServer_ReadFile(LegacyFiles)
    \/ StartServer_ReadFileFails
    \/ StartServer_Connect
    \/ StartServer_ConnectFails
    \/ Migrate_Count
    \/ Migrate_FindOne
    \/ Migrate_Save
    \/ Migrate_FindOrders
    \/ Migrate_InsertMany
    \/ Seed_Count
    \/ Seed_FindOne
    \/ Seed_Create
    \/ StartServer_Listen

ReviewSteps(r) ==
    \/ PostReview_FindProduct(r)
    \/ PostReview_FindOrders(r)
    \/ PostReview_SaveComment(r)
    \/ PostReview_Aggregate(r)
    \/ PostReview_SaveProduct(r)

(***************************************************************************)
(* Spec: the server with one handler of each kind in flight at a time,     *)
(* interleaved with each other and with the admin operations.              *)
(***************************************************************************)
Next ==
    \/ Start
    \/ PostReview(1, {1}, { <<"a">> }, {4, 5}, { <<"o", "k">> })
    \/ ReviewSteps(1)
    \/ PostComment(1, ProductIdInputs, { <<"a">> }, { <<"o", "k">> })
    \/ PostComment_Save(1)
    \/ PostProduct(1, CreateBodies)
    \/ PostProduct_Save(1)
    \/ PutProduct(PutBodies)
    \/ DeleteProduct
    \/ PostOrder({ {1} }, { <<"A">> }, { <<" ", "b">> })

Spec == Init /\ [][Next]_vars

(***************************************************************************)
(* SpecIntake: review submission over the inputs its validation tells      *)
(* apart, next to plain comments and orders.                               *)
(***************************************************************************)
NextIntake ==
    \/ Start
    \/ PostReview(1, {1, 2}, { <<>>, <<"a">> }, {0, 4, 5, 6}, { <<>>, <<"o", "k">> })
    \/ ReviewSteps(1)
    \/ PostComment(1, ProductIdInputs, { <<"a">> }, { <<"o", "k">> })
    \/ PostComment_Save(1)
    \/ PostOrder({ {2} }, { <<"A">> }, { <<"b">> })

SpecIntake == Init /\ [][NextIntake]_vars

(***************************************************************************)
(* SpecMatch: the Purchase Matcher over reviewer names and stored Orders.  *)
(* The process starts against a store that already holds Orders.           *)
(***************************************************************************)
MatchOrders ==
    { OrderDoc({1}, <<"A">>, <<"b">>),
      OrderDoc({1, 2}, <<"b">>, <<"A", " ">>),
      OrderDoc({2}, <<" ", "b">>, <<"b">>) }

MatchUsers ==
    { <<" ">>, <<"a">>, <<" ", "B", " ">>, <<"A", " ", "b">>,
      <<"a", " ", "b", "a">>, <<"a", "b">> }

InitMatch ==
    /\ phase = "readFile"
    /\ productsFromJson = <<>>
    /\ mig = MigIdle
    /\ products = {}
    /\ ids = 0
    /\ comments = <<>>
    /\ orders \in SUBSET MatchOrders
    /\ review = [r \in ReviewSlots |-> ReviewIdle("idle")]
    /\ create = [c \in CreateSlots |-> CreateIdle("idle")]
    /\ plain = [k \in PlainSlots |-> PlainIdle("idle")]
    /\ created = <<>>
    /\ log = << {} >>
    /\ ClientInit

NextMatch ==
    \/ Start
    \/ PostReview(1, {1, 2}, MatchUsers, {5}, { <<"o", "k">> })
    \/ ReviewSteps(1)

SpecMatch == InitMatch /\ [][NextMatch]_vars

(***************************************************************************)
(* SpecAdmin: the writers of legacyId, with two POST /api/products         *)
(* handlers in flight at a time.                                           *)
(***************************************************************************)
NextAdmin ==
    \/ Start
    \/ \E c \in CreateSlots :
           \/ PostProduct(c, CreateBodies)
           \/ PostProduct_Save(c)
    \/ PutProduct(AdminPutBodies)
    \/ DeleteProduct

SpecAdmin == Init /\ [][NextAdmin]_vars

(***************************************************************************)
(* SpecRerun: startup, migration and seeding alone, with store errors at   *)
(* every await of the pipeline, over the stores a process can find when    *)
(* it starts and over a restart of the process against the store it left.  *)
(***************************************************************************)
\* products.json of the reruns: empty, two records listed in descending id
\* order, two records the first of which has an embedded review
RerunFiles ==
    { <<>>,
      << LegacyRecord(2, 0, 0, <<>>), LegacyRecord(1, 0, 0, <<>>) >>,
      << LegacyRecord(1, 5, 1, << LegacyReview(<<"A", " ">>, 5) >>),
         LegacyRecord(2, 0, 0, <<>>) >> }

\* Products created through POST /api/products (some of them deleted again)
\* before the process starts: the legacyIds in the set, ObjectIds by rank
AdminProducts(legacyIds) ==
    { [_id |-> Cardinality({m \in legacyIds : m <= l}), legacyId |-> l,
       rating |-> 0, reviewsCount |-> 0] : l \in legacyIds }

InitialStores ==
    { [products |-> AdminProducts(L), ids |-> Cardinality(L), comments |-> <<>>] :
          L \in {K \in SUBSET (1..3) : Cardinality(K) <= 2} }
    \cup
    \* a review was submitted for a Product that was deleted afterwards
    { [products |-> {}, ids |-> 1, comments |-> << NewComment(1, 5, FALSE) >>] }

InitRerun ==
    /\ phase = "readFile"
    /\ productsFromJson = <<>>
    /\ mig = MigIdle
    /\ \E s \in InitialStores :
           /\ products = s.products
           /\ ids = s.ids
           /\ comments = s.comments
    /\ orders \in { {}, {OrderDoc({1}, <<"A">>, <<"b">>)} }
    /\ review = [r \in ReviewSlots |-> ReviewIdle("idle")]
    /\ create = [c \in CreateSlots |-> CreateIdle("idle")]
    /\ plain = [k \in PlainSlots |-> PlainIdle("idle")]
    /\ created = <<>>
    /\ log = << {} >>
    /\ ClientInit

Pipeline ==
    \/ Migrate_Count
    \/ Migrate_FindOne
    \/ Migrate_Save
    \/ Migrate_FindOrders
    \/ Migrate_InsertMany
    \/ Seed_Count
    \/ Seed_FindOne
    \/ Seed_Create
    \/ Migrate_StoreError

NextRerun ==
    \/ StartServer_ReadFile(RerunFiles)
    \/ StartServer_ReadFileFails
    \/ StartServer_Connect
    \/ StartServer_ConnectFails
    \/ Pipeline
    \/ StartServer_Listen
    \/ Restart

SpecRerun == InitRerun /\ [][NextRerun]_vars

(***************************************************************************)
(* SpecConverge: processes started one after the other on a store that is  *)
(* empty at first, all reading the same products.json, with store errors   *)
(* at every await of the pipeline.                                         *)
(***************************************************************************)
ConvergeFile ==
    << LegacyRecord(1, 3, 1, << LegacyReview(<<"A">>, 3) >>),
       LegacyRecord(2, 0, 0, <<>>) >>

NextConverge ==
    \/ StartServer_ReadFile({ConvergeFile})
    \/ StartServer_ReadFileFails
    \/ StartServer_Connect
    \/ StartServer_ConnectFails
    \/ Pipeline
    \/ StartServer_Listen
    \/ Restart

SpecConverge == Init /\ [][NextConverge]_vars

(***************************************************************************)
(* SpecBoot: one process from its start until it serves or exits. Every    *)
(* awaited call settles (it resolves or rejects), so a step that is        *)
(* possible is eventually taken.                                           *)
(***************************************************************************)
NextBoot ==
    \/ StartServer_ReadFile(RerunFiles)
    \/ StartServer_ReadFileFails
    \/ StartServer_Connect
    \/ StartServer_ConnectFails
    \/ Pipeline
    \/ StartServer_Listen

SpecBoot == InitRerun /\ [][NextBoot]_vars /\ WF_vars(NextBoot)

(***************************************************************************)
(* SpecRace: two review submissions in flight at a time for a Product      *)
(* created through POST /api/products.                                     *)
(***************************************************************************)
RaceRatings == {1, 5}

NextRace ==
    \/ Start
    \/ PostProduct(1, CreateBodies)
    \/ PostProduct_Save(1)
    \/ PostReview(1, {1}, { <<"a">> }, RaceRatings, { <<"o", "k">> })
    \/ PostReview(2, {1}, { <<"a">> }, RaceRatings, { <<"o", "k">> })
    \/ ReviewSteps(1)
    \/ ReviewSteps(2)

SpecRace == Init /\ [][NextRace]_vars

(***************************************************************************)
(* SpecRepair: review submissions one at a time with store errors at       *)
(* every await of the handler, next to plain comments.                     *)
(***************************************************************************)
NextRepair ==
    \/ Start
    \/ PostProduct(1, CreateBodies)
    \/ PostProduct_Save(1)
    \/ PostReview(1, {1}, { <<"a">> }, RaceRatings, { <<"o", "k">> })
    \/ ReviewSteps(1)
    \/ PostReview_StoreError(1)
    \/ PostComment(1, ProductIdInputs, { <<"a">> }, { <<"o", "k">> })
    \/ PostComment_Save(1)

SpecRepair == Init /\ [][NextRepair]_vars

(***************************************************************************)
(* The page: loadProducts calls, overlapping at their awaits, while the    *)
(* time passes.                                                            *)
(***************************************************************************)
NextClient ==
    \/ Tick
    \/ \E c \in LoadSlots, forceReload \in BOOLEAN, storedCart \in StoredCarts :
          LoadProducts(c, forceReload, storedCart)
    \/ \E c \in LoadSlots : LoadProducts_Fetch(c)
    \/ \E c \in LoadSlots : LoadProducts_FetchFails(c)
    \/ \E c \in LoadSlots, productsFromAPI \in ApiResponses, storedCart \in StoredCarts :
          LoadProducts_Json(c, productsFromAPI, storedCart)
    \/ \E c \in LoadSlots : LoadProducts_JsonFails(c)

SpecClient == Init /\ [][NextClient]_vars

(***************************************************************************)
(* Properties.                                                             *)
(***************************************************************************)
\* no handler is in flight and startup is over
Quiescent ==
    /\ phase = "listening"
    /\ \A r \in ReviewSlots : review[r].pc \in ReviewDone
    /\ \A k \in PlainSlots : plain[k].pc \in PlainDone
    /\ \A c \in CreateSlots : create[c].pc \in CreateDone

\* the ratings of the Comments of a product that have a rating set
RatedOf(productId) ==
    SelectSeq(comments, LAMBDA c : c.productId = productId /\ c.rating # NoRating)

RECURSIVE Total(_)
Total(cs) == IF cs = <<>> THEN 0 ELSE Head(cs).rating + Total(Tail(cs))

\* the mean of the ratings rounded half up, 0 without ratings
RecomputedRating(productId) ==
    LET n == Len(RatedOf(productId))
        S == Total(RatedOf(productId))
    IN  IF n = 0 THEN 0 ELSE (2 * S + n) \div (2 * n)

RecomputedCount(productId) == Len(RatedOf(productId))

\* C1: whenever no operation is in flight, every Product's stored rating and
\* reviewsCount are the values recomputed from the Comments that reference it.
C1_AggregateConsistent ==
    Quiescent =>
        \A p \in products :
            /\ p.rating = RecomputedRating(p._id)
            /\ p.reviewsCount = RecomputedCount(p._id)

\* C3: when a review submission writes the Product, the reviewsCount it
\* stores is the number of the product's Comments that have a rating.
C3_CountsRatedOnly ==
    [][\A r \in ReviewSlots :
          (review[r].pc = "saveProduct" /\ review'[r].pc = "r201"
              /\ products' # products)
          => \A p \in products' :
                 p._id = review[r].product._id
                 => p.reviewsCount = RecomputedCount(p._id)]_vars

\* C5: every Comment's productId is the _id of a stored Product.
C5_NoOrphanComment ==
    \A i \in 1..Len(comments) :
        \E p \in products : p._id = comments[i].productId

\* C6: no two stored Products share a legacyId.
C6_LegacyIdUnique ==
    \A p, q \in products : p.legacyId = q.legacyId => p._id = q._id

\* C6 witness: two creations read the same maximum; one saved its Product
\* and the other was refused by the unique index.
C6_Witness ==
    /\ create[1].pc = "c201"
    /\ create[2].pc = "c400"
    /\ create[1].newLegacyId = create[2].newLegacyId
    /\ \E p \in products : p.legacyId = create[1].newLegacyId

\* C7: with creations one after the other from a store without Products, the
\* first creation returns legacyId 1 and every later one a legacyId above all
\* those returned before it.
C7_StrictlyIncreasing ==
    /\ (productsFromJson = <<>> /\ created # <<>>) => created[1] = 1
    /\ \A i, j \in 1..Len(created) : i < j => created[i] < created[j]

\* C8: no step changes the legacyId of a Product that stays in the store.
C8_LegacyIdImmutable ==
    [][\A p \in products : \A q \in products' :
          p._id = q._id => q.legacyId = p.legacyId]_vars

\* C4: the rating a review submission assigns at aggregation is the mean of
\* the product's rated Comments rounded half up, floor((2S + n) / (2n)) for
\* their sum S and number n >= 1, an integer in 1..5; and a rating that the
\* submission's product write changes becomes that value.
C4_RatingRoundsHalfUp ==
    [][\A r \in ReviewSlots :
          /\ (review[r].pc = "aggregate" /\ review'[r] # review[r])
             => LET n == Len(RatedOf(review[r].product._id))
                    S == Total(RatedOf(review[r].product._id))
                IN  /\ n >= 1
                    /\ review'[r].pc = "saveProduct"
                    /\ review'[r].newRating = (2 * S + n) \div (2 * n)
                    /\ review'[r].newRating \in 1..5
          /\ (review[r].pc = "saveProduct" /\ review'[r] # review[r])
             => \A p \in products : \A q \in products' :
                    (p._id = q._id /\ q.rating # p.rating)
                    => (q._id = review[r].product._id
                        /\ q.rating = review[r].newRating)]_vars

\* C4 witness: a submission aggregated the ratings 5 and 4 (mean 4.5, next to
\* a Comment without rating) and is about to store the rating 5.
C4_Witness ==
    \E r \in ReviewSlots :
        /\ review[r].pc = "saveProduct"
        /\ Len(RatedOf(review[r].product._id)) = 2
        /\ Total(RatedOf(review[r].product._id)) = 9
        /\ Len(CommentsOf(review[r].product._id)) = 3
        /\ review[r].newRating = 5

\* C9: a review submission with rating 0, rating 6, an empty username or an
\* empty comment text ends as a validation failure, and its step changes no
\* collection.
C9_InvalidReviewRejected ==
    [][\A r \in ReviewSlots :
          (/\ review[r].pc = "received"
           /\ review'[r] # review[r]
           /\ \/ review[r].rating = 0
              \/ review[r].rating = 6
              \/ review[r].user = <<>>
              \/ review[r].comment = <<>>)
          => /\ review'[r].pc = "r400"
             /\ UNCHANGED <<products, comments, orders, ids>>]_vars

\* C9 witness: a submission whose only fault is rating 6 was rejected while
\* its product exists.
C9_Witness ==
    \E r \in ReviewSlots :
        /\ review[r].pc = "r400"
        /\ review[r].rating = 6
        /\ review[r].user # <<>>
        /\ review[r].comment # <<>>
        /\ \E p \in products : p.legacyId = review[r].id

\* C10: a review submission with valid fields for a legacyId that no Product
\* has ends as NotFound, its step changes no collection, and it carries no
\* verification result.
C10_UnknownProductNotFound ==
    [][\A r \in ReviewSlots :
          (/\ review[r].pc = "received"
           /\ review'[r] # review[r]
           /\ review[r].user # <<>>
           /\ review[r].comment # <<>>
           /\ review[r].rating \in 1..5
           /\ \A p \in products : p.legacyId # review[r].id)
          => /\ review'[r].pc = "r404"
             /\ review'[r].isVerified = FALSE
             /\ UNCHANGED <<products, comments, orders, ids>>]_vars

\* C10 witness: a valid submission for a legacyId no Product carries has
\* ended NotFound, the store holds an Order with a line item of that id and
\* the Comment collection is empty.
C10_Witness ==
    \E r \in ReviewSlots :
        /\ review[r].pc = "r404"
        /\ review[r].rating \in 1..5
        /\ \A p \in products : p.legacyId # review[r].id
        /\ \E o \in orders : review[r].id \in o.items
        /\ comments = <<>>

\* Names as the matcher's contract describes them: a name lower-cased, and
\* with the spaces at its two ends removed.
Folded(s) ==
    [i \in 1..Len(s) |->
        IF \E pair \in { <<"A", "a">>, <<"B", "b">> } : pair[1] = s[i]
        THEN (CHOOSE pair \in { <<"A", "a">>, <<"B", "b">> } : pair[1] = s[i])[2]
        ELSE s[i]]

Stripped(s) ==
    LET a == CHOOSE a \in 0..Len(s) :
                 /\ \A i \in 1..a : s[i] = " "
                 /\ a = Len(s) \/ s[a + 1] # " "
        b == CHOOSE b \in 0..(Len(s) - a) :
                 /\ \A i \in (Len(s) - b + 1)..Len(s) : s[i] = " "
                 /\ b = Len(s) - a \/ s[Len(s) - b] # " "
    IN  [i \in 1..(Len(s) - a - b) |-> s[a + i]]

Normal(s) == Stripped(Folded(s))

FullName(o) == Normal(o.firstname \o <<" ">> \o o.lastname)

\* part occurs in whole as a run of consecutive characters
Substring(part, whole) ==
    \E k \in 0..(Len(whole) - Len(part)) :
        \A i \in 1..Len(part) : whole[k + i] = part[i]

Buyers(legacyId) == {o \in orders : legacyId \in o.items}

Evidence(legacyId, R) ==
    \E o \in Buyers(legacyId) : Substring(Normal(R), FullName(o))

\* the verification results in hand: <<legacy id, reviewer name, flag>> of the
\* review submissions past their order lookup and of the embedded reviews
\* about to be inserted by the migration
Verdicts ==
    { <<review[r].id, review[r].user, review[r].isVerified>> :
        r \in {r \in ReviewSlots :
                 review[r].pc \in {"saveComment", "aggregate", "saveProduct"}} }
    \cup
    { <<productsFromJson[mig.i].id, productsFromJson[mig.i].reviews[k].user,
        mig.commentsToCreate[k].verifiedPurchase>> :
        k \in 1..(IF phase = "migrateInsert" THEN Len(mig.commentsToCreate) ELSE 0) }

\* C2: the verifiedPurchase flag computed by review submission and by the
\* migration of embedded reviews is true exactly when an Order with a line
\* item of the product has a lower-cased trimmed full name that contains the
\* lower-cased trimmed reviewer name; so it is false without such an Order,
\* false when the reviewer name properly extends every such customer name,
\* and true for an all-whitespace reviewer name when such an Order exists.
C2_VerifiedIffNameContained ==
    \A v \in Verdicts :
        /\ v[3] = Evidence(v[1], v[2])
        /\ Buyers(v[1]) = {} => v[3] = FALSE
        /\ (/\ Buyers(v[1]) # {}
            /\ \A o \in Buyers(v[1]) :
                   /\ Substring(FullName(o), Normal(v[2]))
                   /\ Len(Normal(v[2])) > Len(FullName(o)))
           => v[3] = FALSE
        /\ (/\ Buyers(v[1]) # {}
            /\ \A i \in 1..Len(v[2]) : v[2][i] = " ")
           => v[3] = TRUE

\* C2 witness: a submission under an all-whitespace name was computed as a
\* verified purchase, the product having a buyer.
C2_Witness ==
    \E r \in ReviewSlots :
        /\ review[r].pc = "saveComment"
        /\ review[r].user = <<" ">>
        /\ review[r].isVerified
        /\ Buyers(review[r].id) # {}

(***************************************************************************)
(* Migration and seeding.                                                  *)
(***************************************************************************)
\* every record of the legacy list has a Product with its id as legacyId
AllLegacyPresent ==
    \A i \in 1..Len(productsFromJson) :
        \E p \in products : p.legacyId = productsFromJson[i].id

\* the running process is not the first one and the process before it
\* ended its migration and seeding without an error
PreviousRunCompleted ==
    /\ Len(log) >= 2
    /\ log[Len(log) - 1] \cap {"migrate", "fatal"} = {}

\* C11: when the pipeline runs again after a run that completed, against a
\* store in which every legacy record has its Product (every record has one
\* and this run has created none), no step of it creates a Product or a
\* Comment or modifies a document.
C11_MigrationIdempotent ==
    [][(/\ phase \in MigratePhases
        /\ PreviousRunCompleted
        /\ AllLegacyPresent
        /\ mig.migratedCount = 0)
       => UNCHANGED <<products, ids, comments, orders>>]_vars

\* C11 witness: the second process is serving; the first one migrated a
\* record with an embedded review, both pipelines ended without an error and
\* the store holds that Product and its Comment.
C11_Witness ==
    /\ phase = "listening"
    /\ log = << {}, {} >>
    /\ AllLegacyPresent
    /\ Len(productsFromJson) = 2
    /\ \E p \in products : p.legacyId = 1 /\ p.rating = 5
    /\ Len(comments) = 1

\* the Product the seeding step refers to
MinLegacyIdProduct ==
    CHOOSE p \in products : \A q \in products : p.legacyId <= q.legacyId

\* C12: a seeding step that meets no store error writes only when the
\* Comments collection is empty and a Product exists, and then it creates
\* exactly two Comments, rated 5 and 4, on the Product with the minimum
\* legacyId; otherwise it writes nothing and the pipeline ends.
C12_Seeding ==
    [][(phase \in {"seedCount", "seedFind", "seedCreate"} /\ log' = log)
       => IF comments = <<>> /\ products # {}
          THEN /\ UNCHANGED <<products, ids, orders>>
               /\ phase = "seedCount" => (phase' = "seedFind" /\ UNCHANGED comments)
               /\ phase = "seedFind" => (phase' = "seedCreate" /\ UNCHANGED comments)
               /\ phase = "seedCreate"
                  => /\ phase' = "listen"
                     /\ Len(comments') = 2
                     /\ comments'[1].rating = 5
                     /\ comments'[2].rating = 4
                     /\ comments'[1].productId = MinLegacyIdProduct._id
                     /\ comments'[2].productId = MinLegacyIdProduct._id
          ELSE /\ UNCHANGED <<products, ids, comments, orders>>
               /\ phase # "seedCreate"
               /\ phase' = IF comments = <<>> /\ phase = "seedCount"
                           THEN "seedFind" ELSE "listen"]_vars

\* C12 witness: the two sample Comments were created on the Product with
\* legacyId 1, which is not the Product that was inserted first.
C12_Witness ==
    /\ phase = "listen"
    /\ log[Len(log)] = {}
    /\ Len(comments) = 2
    /\ comments[1].rating = 5 /\ comments[2].rating = 4
    /\ \E p \in products :
           /\ p._id = comments[1].productId
           /\ p._id = comments[2].productId
           /\ p.legacyId = 1
           /\ \E q \in products : q._id < p._id

\* the legacy record the loop of migrateAndSeed is at
CurrentRecord == productsFromJson[mig.i]

HasProduct(record) == \E q \in products : q.legacyId = record.id

\* C18: in the loop over the legacy records, a record whose id is the
\* legacyId of a stored Product is passed over with the store unchanged and
\* without a save or an insert for it; a record whose id is absent gets its
\* Product saved, exactly one new document with that legacyId; Comments are
\* inserted only for the Product the loop has just created; and no stored
\* Product is modified or removed by the pipeline.
C18_SkipExistingCreateAbsent ==
    [][/\ phase \in MigratePhases => products \subseteq products'
       /\ (phase = "migrateFind" /\ log' = log)
          => /\ UNCHANGED <<products, ids, comments, orders>>
             /\ IF HasProduct(CurrentRecord)
                THEN /\ phase' \in {"migrateFind", "seedCount"}
                     /\ phase' = "migrateFind" => mig'.i = mig.i + 1
                     /\ mig'.migratedCount = mig.migratedCount
                ELSE phase' = "migrateSave" /\ mig'.i = mig.i
       /\ phase = "migrateSave"
          => /\ ~HasProduct(CurrentRecord)
             /\ log' = log
                => /\ Cardinality(products') = Cardinality(products) + 1
                   /\ Cardinality({q \in products' :
                                       q.legacyId = CurrentRecord.id}) = 1
                   /\ UNCHANGED comments
       /\ phase \in {"migrateOrders", "migrateInsert"}
          => /\ \E q \in products :
                    q._id = mig.newProduct /\ q.legacyId = CurrentRecord.id
             /\ \A k \in (Len(comments) + 1)..Len(comments') :
                    comments'[k].productId = mig.newProduct]_vars

\* C18 witness: the loop has ended without an error; it passed over the
\* first record, which has an embedded review and whose Product was in the
\* store, and created the Product of the second; no Comment was inserted.
C18_Witness ==
    /\ phase = "seedCount"
    /\ log = << {} >>
    /\ Len(productsFromJson) = 2
    /\ productsFromJson[1].reviews # <<>>
    /\ mig.migratedCount = 1
    /\ \E q \in products : q.legacyId = 1 /\ q.rating = 0
    /\ \E q \in products : q.legacyId = 2
    /\ comments = <<>>

\* C20: when migrateAndSeed has returned without an error, every record of
\* the legacy list has a Product with its id as legacyId.
C20_EveryRecordMigrated ==
    (phase \in {"listen", "listening"} /\ "migrate" \notin log[Len(log)])
    => AllLegacyPresent

\* the store without its ObjectIds: Products by legacyId, Comments by the
\* legacyId of the Product they reference
ProductsView ==
    { [legacyId |-> p.legacyId, rating |-> p.rating,
       reviewsCount |-> p.reviewsCount] : p \in products }

CommentsView ==
    [k \in 1..Len(comments) |->
        [legacyId |-> FindById(comments[k].productId).legacyId,
         rating |-> comments[k].rating,
         verifiedPurchase |-> comments[k].verifiedPurchase]]

\* what one run without error leaves in a store that was empty and has no
\* Orders: a Product per legacy record and a Comment per embedded review
MigratedProducts(file) ==
    { [legacyId |-> file[i].id, rating |-> file[i].rating,
       reviewsCount |-> file[i].reviewsCount] : i \in 1..Len(file) }

RECURSIVE MigratedComments(_)
MigratedComments(file) ==
    IF file = <<>> THEN <<>>
    ELSE [k \in 1..Len(Head(file).reviews) |->
             [legacyId |-> Head(file).id,
              rating |-> Head(file).reviews[k].rating,
              verifiedPurchase |-> FALSE]]
         \o MigratedComments(Tail(file))

\* C19: when a pipeline that was interrupted by an error is followed by a
\* pipeline without error on the same legacy list, the store holds the
\* Products and the Comments that a single run without error leaves.
C19_RerunConverges ==
    (/\ Len(log) = 2
     /\ log[1] = {"migrate"}
     /\ log[2] = {}
     /\ phase \in {"listen", "listening"}
     /\ productsFromJson = ConvergeFile)
    => /\ ProductsView = MigratedProducts(ConvergeFile)
       /\ CommentsView = MigratedComments(ConvergeFile)

(***************************************************************************)
(* Startup.                                                                *)
(***************************************************************************)
\* C13: after a failed connection the process has exited and never serves;
\* once the connection succeeded the process never exits and, whatever
\* happens in migration and seeding, it eventually serves requests.
C13_StartupDecision ==
    /\ []("fatal" \in log[Len(log)] => [](phase = "exited"))
    /\ [](phase \in MigratePhases => [](phase # "exited"))
    /\ (phase \in MigratePhases) ~> (phase = "listening")

\* C13 witness: the process serves requests although its pipeline failed
\* after it had saved a Product of the legacy list.
C13_Witness ==
    /\ phase = "listening"
    /\ "migrate" \in log[Len(log)]
    /\ \E p \in products : p.rating = 5

\* C14: reading the legacy source never ends the process; once the read has
\* failed the legacy list is empty, the loop over the legacy records is not
\* entered, no Product is created, a Comment is created by the seeding step
\* only, and the process exits only if the connection fails.
C14_ReadFailureNotFatal ==
    [][/\ phase = "readFile" => phase' = "connect"
       /\ "read" \in log'[Len(log')]
          => /\ productsFromJson' = <<>>
             /\ phase' \notin {"migrateFind", "migrateSave", "migrateOrders",
                               "migrateInsert"}
             /\ UNCHANGED <<products, ids>>
             /\ comments' # comments => phase = "seedCreate"
             /\ phase' = "exited" => "fatal" \in log'[Len(log')]]_vars

\* C14 witness: the read failed, the process serves, the Products it found
\* are all there is and the seeding step has created its two Comments.
C14_Witness ==
    /\ phase = "listening"
    /\ log[Len(log)] = {"read"}
    /\ Cardinality(products) = 2
    /\ Len(comments) = 2

\* C17: requests are served only once migrateAndSeed has returned: while the
\* process is not serving no handler is in flight and no handler takes a
\* step, serving begins at app.listen after the pipeline, the pipeline is
\* entered from the connection only, and a serving process never goes back
\* to startup.
C17_ServesAfterPipeline ==
    [][/\ phase # "listening"
          => /\ \A r \in ReviewSlots : review[r].pc = "idle"
             /\ \A c \in CreateSlots : create[c].pc = "idle"
             /\ \A k \in PlainSlots : plain[k].pc = "idle"
             /\ UNCHANGED <<client, review, create, plain, created, orders>>
       /\ (phase' = "listening" /\ phase # "listening") => phase = "listen"
       /\ phase' = "listen" => phase \in MigratePhases
       /\ phase' = "migrate" => phase = "connect"
       /\ phase' = "connect" => phase = "readFile"
       /\ phase' = "readFile" => phase = "readFile"
       /\ phase = "listening" => phase' = "listening"]_vars

\* C17 witness: a review submission has been answered by a process whose
\* pipeline migrated the two records of the legacy list.
C17_Witness ==
    /\ phase = "listening"
    /\ review[1].pc = "r201"
    /\ Len(productsFromJson) = 2
    /\ \A i \in 1..2 : \E p \in products : p.legacyId = productsFromJson[i].id
    /\ mig = MigIdle

(***************************************************************************)
(* Concurrent review submissions.                                          *)
(***************************************************************************)
\* C15: the product write of a review submission stores the rating and the
\* reviewsCount its own aggregation assigned, whatever has been stored and
\* whichever Comments have been inserted since that aggregation: the later
\* write wins.
C15_LaterWriteWins ==
    [][\A r \in ReviewSlots :
          (review[r].pc = "saveProduct" /\ review'[r].pc = "r201")
          => \A q \in products' :
                 q._id = review[r].product._id
                 => /\ review[r].newRating # review[r].product.rating
                       => q.rating = review[r].newRating
                    /\ review[r].newReviewsCount # review[r].product.reviewsCount
                       => q.reviewsCount = review[r].newReviewsCount]_vars

\* C15 witness: two submissions for the same Product, rated 5 and 1, both
\* returned success and both Comments are stored; the Product carries rating
\* 5 and reviewsCount 1, the aggregation over the first Comment alone, where
\* a recomputation gives rating 3 and reviewsCount 2.
C15_Witness ==
    /\ review[1].pc = "r201" /\ review[2].pc = "r201"
    /\ review[1].id = review[2].id
    /\ \E p \in products :
           /\ p.legacyId = review[1].id
           /\ Len(CommentsOf(p._id)) = 2
           /\ RecomputedRating(p._id) = 3
           /\ RecomputedCount(p._id) = 2
           /\ p.rating = 5
           /\ p.reviewsCount = 1

\* the handler of slot r has not been interleaved with another write to its
\* Product: the document it loaded is the stored one and the aggregation it
\* made is the one the stored Comments give
NotInterleaved(r) ==
    LET stats == Aggregate(review[r].product._id)
    IN  /\ review[r].product \in products
        /\ stats.length > 0
        /\ review[r].newRating = MathRound(stats.sum, stats.rated)
        /\ review[r].newReviewsCount = stats.count

\* C16: a store failure after the Comment insert of a review submission
\* answers with an error and leaves the Comment stored and the Product as it
\* was; and a submission that completes without being interleaved leaves the
\* Product's rating and reviewsCount equal to the recomputation over all the
\* Comments of the product.
C16_WindowAndRepair ==
    [][\A r \in ReviewSlots :
          /\ (review[r].pc \in {"aggregate", "saveProduct"}
                 /\ review'[r].pc = "r500")
             => UNCHANGED <<products, comments>>
          /\ (review[r].pc = "saveProduct" /\ review'[r].pc = "r201"
                 /\ NotInterleaved(r))
             => \A q \in products' :
                    q._id = review[r].product._id
                    => /\ q.rating = RecomputedRating(q._id)
                       /\ q.reviewsCount = RecomputedCount(q._id)]_vars

(***************************************************************************)
(* The browser's product cache.                                            *)
(***************************************************************************)
\* slot c starts a call of loadProducts in this step
CallStarts(c) == load[c].pc \in {"idle", "returned"} /\ load'[c] # load[c]

MustFetch(forceReload) ==
    forceReload \/ cachedProducts = <<>> \/ clock - lastFetchTime >= CacheMs

\* C21: a call of loadProducts(forceReload) goes to the network if and only
\* if forceReload is true, or the cached list is empty, or at least 5000 ms
\* have passed since lastFetchTime, which is the start time of the call whose
\* successful fetch was stored last; otherwise it returns the cached products
\* with the cart state applied, without fetching; a failed fetch returns the
\* empty list and leaves cachedProducts and lastFetchTime as they were.
C21_FetchIffStaleEmptyOrForced ==
    [][\A c \in LoadSlots :
          /\ CallStarts(c)
             => /\ load'[c].now = clock
                /\ load'[c].pc = "fetch" <=> MustFetch(load'[c].forceReload)
                /\ load'[c].pc # "fetch"
                   => /\ load'[c].pc = "returned"
                      /\ load'[c].outcome = "cache"
                      /\ \E storedCart \in StoredCarts :
                            load'[c].result = applyCartState(cachedProducts, storedCart)
                /\ UNCHANGED <<cachedProducts, lastFetchTime>>
          /\ (load[c].pc \in {"fetch", "json"} /\ load'[c].outcome = "failed")
             => /\ load'[c].pc = "returned"
                /\ load'[c].result = <<>>
                /\ UNCHANGED <<cachedProducts, lastFetchTime>>
          /\ (load[c].pc = "json" /\ load'[c].outcome = "fetched")
             => /\ lastFetchTime' = load[c].now
                /\ cachedProducts' \in ApiResponses
                /\ \E storedCart \in StoredCarts :
                      load'[c].result = applyCartState(cachedProducts', storedCart)]_vars

\* C21 witness: one call, started 4999 ms after the start of the call that
\* filled the cache, returned the cached products with a cart item applied;
\* a forced call started later failed and the cache still holds that list.
C21_Witness ==
    \E c, d \in LoadSlots :
        /\ load[c].outcome = "cache"
        /\ ~load[c].forceReload
        /\ load[c].now - lastFetchTime = 4999
        /\ \E i \in 1..Len(load[c].result) : load[c].result[i].inCart
        /\ [i \in 1..Len(load[c].result) |-> [id |-> load[c].result[i].id]] = cachedProducts
        /\ load[d].outcome = "failed"
        /\ load[d].forceReload
        /\ load[d].now > load[c].now

\* C22: for every interleaving of overlapping loadProducts calls,
\* lastFetchTime never decreases, and a call that started before the call
\* whose response is cached never replaces that response: cachedProducts
\* holds the response of the most recently started successful fetch.
C22_LatestStartedFetchWins ==
    [][/\ lastFetchTime' >= lastFetchTime
       /\ \A c \in LoadSlots :
             (load[c].pc = "json" /\ load[c].now < lastFetchTime)
             => UNCHANGED cachedProducts]_vars

====
